---- MODULE Spec2Model ----
(***************************************************************************)
(* A model of tools/crawl_wordpress.py: the URL normalizer and validator,  *)
(* the page classifier and redirect mapper, the sitemap resolver and the   *)
(* crawl loop of WordPressCrawler.                                         *)
(*                                                                         *)
(* Python strings are TLA+ strings; TLC evaluates Len, \o, SubSeq and Tail *)
(* on them, so every string operation of the code is computed character    *)
(* by character.  Positions are 1-based here and 0-based in Python.        *)
(***************************************************************************)
EXTENDS Integers, Sequences, FiniteSets, TLC

(***************************************************************************)
(* Bounds of the model.                                                    *)
(***************************************************************************)
\* the page budgets tried: max_pages ranges over 0..MaxBudget
MaxBudget == 2
\* the most <sitemap> entries of one sitemap document
MaxChildren == 2
\* the most <url> entries of one sitemap document
MaxEntries == 1
\* the most <a href> anchors of one page
MaxLinks == 2
\* the longest tail appended to a URL prefix as an input of normalize_url
MaxTail == 3
\* the most fields of a property that are missing or wrong
MaxDefects == 1
\* the most PageRecords of a crawl result handed to generate_redirect_config
MaxRecords == 2
\* the most path pieces put together as an input of detect_page_type
MaxPieces == 2

(***************************************************************************)
(* Python's str methods.                                                   *)
(***************************************************************************)
\* s[a-1:b]: Python's slice, cut to the string's ends
Slice(s, a, b) ==
    LET lo == IF a < 1 THEN 1 ELSE a
        hi == IF b > Len(s) THEN Len(s) ELSE b
    IN IF lo > hi THEN "" ELSE SubSeq(s, lo, hi)

Char(s, i) == Slice(s, i, i)

\* s.startswith(p)
StartsWith(s, p) == Len(p) <= Len(s) /\ Slice(s, 1, Len(p)) = p

\* s.endswith(p)
EndsWith(s, p) == Len(p) <= Len(s) /\ Slice(s, Len(s) - Len(p) + 1, Len(s)) = p

\* p in s
Contains(s, p) == \E i \in 1..(Len(s) - Len(p) + 1) : Slice(s, i, i + Len(p) - 1) = p

\* the least and the greatest of a set of positions, d when there is none
MinOr(I, d) == IF I = {} THEN d ELSE CHOOSE i \in I : \A j \in I : i <= j
MaxOr(I, d) == IF I = {} THEN d ELSE CHOOSE i \in I : \A j \in I : j <= i

\* s.find(c, start) for a one-character c: the first position >= start, 0 if none
Find(s, c, start) == MinOr({i \in start..Len(s) : Char(s, i) = c}, 0)

\* s.rfind(c): the last position, 0 if none
RFind(s, c) == MaxOr({i \in 1..Len(s) : Char(s, i) = c}, 0)

\* s.rstrip(c): every trailing c removed
RECURSIVE RStrip(_, _)
RStrip(s, c) ==
    IF Len(s) > 0 /\ Char(s, Len(s)) = c THEN RStrip(Slice(s, 1, Len(s) - 1), c) ELSE s

UpperLetters == "ABCDEFGHIJKLMNOPQRSTUVWXYZ"
LowerLetters == "abcdefghijklmnopqrstuvwxyz"
Digits == "0123456789"

\* the characters of a string, as a set
CharsOf(s) == {Char(s, i) : i \in 1..Len(s)}

UpperSet == CharsOf(UpperLetters)
AlphaSet == CharsOf(UpperLetters) \cup CharsOf(LowerLetters)

\* c.isalpha(), for an ASCII character
IsAlpha(c) == c \in AlphaSet

\* the lower-case letter of each upper-case letter
LowerOf == [c \in UpperSet |-> Char(LowerLetters, Find(UpperLetters, c, 1))]

LowerChar(c) == IF c \in UpperSet THEN LowerOf[c] ELSE c

\* s.lower()
RECURSIVE Lower(_)
Lower(s) == IF s = "" THEN "" ELSE LowerChar(Char(s, 1)) \o Lower(Slice(s, 2, Len(s)))

\* s.split('/')[-1]
LastSegment(s) == Slice(s, RFind(s, "/") + 1, Len(s))

(***************************************************************************)
(* urllib.parse, as the crawler uses it.  The inputs of the model hold no  *)
(* whitespace, control characters or brackets, so urlsplit's stripping of  *)
(* those and its IPv6 checks never apply.                                  *)
(***************************************************************************)
\* urllib.parse.scheme_chars
SchemeCharSet == AlphaSet \cup CharsOf(Digits) \cup CharsOf("+-.")
IsSchemeChar(c) == c \in SchemeCharSet

\* urllib.parse.uses_params
uses_params == {"", "ftp", "hdl", "prospero", "http", "imap", "https", "shttp",
                "rtsp", "rtsps", "rtspu", "sip", "sips", "mms", "sftp", "tel"}

\* urllib.parse.uses_netloc, uses_relative, as far as the model's schemes go
uses_netloc == {"", "ftp", "http", "https", "file", "ws", "wss"}
uses_relative == {"", "ftp", "http", "https", "file"}

\* _splitnetloc(url, 2): the end of the domain part is the earliest of / ? #
NetlocEnd(url) == MinOr({i \in 3..Len(url) : Char(url, i) \in {"/", "?", "#"}}, Len(url) + 1)

\* s cut at position i: (before, after); (s, "") when i = 0
SplitAt(s, i) ==
    IF i = 0 THEN <<s, "">> ELSE <<Slice(s, 1, i - 1), Slice(s, i + 1, Len(s))>>

\* s.split(c, 1) -> (before, after); (s, "") when c is not in s
SplitOnce(s, c) == SplitAt(s, Find(s, c, 1))

\* urlsplit: url[:i] is a scheme, i being url.find(':')
HasScheme(url, i) ==
    /\ i > 1
    /\ IsAlpha(Char(url, 1))
    /\ \A k \in 1..(i - 1) : IsSchemeChar(Char(url, k))

\* urlsplit: the fragment and the query cut off, f being the split at "#"
urlsplit_query(scheme, netloc, f) ==
    [scheme |-> scheme, netloc |-> netloc, path |-> SplitOnce(f[1], "?")[1],
     query |-> SplitOnce(f[1], "?")[2], fragment |-> f[2]]

\* urlsplit: the netloc cut off what follows the scheme
urlsplit_netloc(scheme, url) ==
    IF Slice(url, 1, 2) = "//"
    THEN urlsplit_query(scheme, Slice(url, 3, NetlocEnd(url) - 1),
                        SplitOnce(Slice(url, NetlocEnd(url), Len(url)), "#"))
    ELSE urlsplit_query(scheme, "", SplitOnce(url, "#"))

\* urlsplit: the scheme cut off, i being url.find(':')
urlsplit_scheme(url, default_scheme, i) ==
    IF HasScheme(url, i)
    THEN urlsplit_netloc(Lower(Slice(url, 1, i - 1)), Slice(url, i + 1, Len(url)))
    ELSE urlsplit_netloc(default_scheme, url)

\* urlsplit(url, scheme): scheme, netloc, path, query, fragment
urlsplit(url, default_scheme) == urlsplit_scheme(url, default_scheme, Find(url, ":", 1))

\* _splitparams(url) -> (url, params)
splitparams(url) ==
    IF Contains(url, "/") THEN SplitAt(url, Find(url, ";", RFind(url, "/")))
    ELSE SplitAt(url, Find(url, ";", 1))

\* urlparse: the six components, p being (path, params)
urlparse_result(s, p) ==
    [scheme |-> s.scheme, netloc |-> s.netloc, path |-> p[1], params |-> p[2],
     query |-> s.query, fragment |-> s.fragment]

\* urlparse: the params of the last path segment cut off the result of urlsplit
urlparse_params(s) ==
    IF s.scheme \in uses_params /\ Contains(s.path, ";")
    THEN urlparse_result(s, splitparams(s.path))
    ELSE urlparse_result(s, <<s.path, "">>)

\* urlparse(url, scheme): urlsplit plus the params of the last path segment
urlparse_scheme(url, default_scheme) == urlparse_params(urlsplit(url, default_scheme))

\* urlparse(url)
urlparse(url) == urlparse_scheme(url, "")

\* urlunparse((scheme, netloc, path, params, query, fragment))
urlunparse(c) ==
    LET u1 == IF c.params # "" THEN c.path \o ";" \o c.params ELSE c.path
        slashes == c.netloc # "" \/ (c.scheme # "" /\ c.scheme \in uses_netloc
                                     /\ Slice(u1, 1, 2) # "//")
        u2 == IF slashes
              THEN "//" \o c.netloc \o (IF u1 # "" /\ Char(u1, 1) # "/" THEN "/" ELSE "") \o u1
              ELSE u1
        u3 == IF c.scheme # "" THEN c.scheme \o ":" \o u2 ELSE u2
        u4 == IF c.query # "" THEN u3 \o "?" \o c.query ELSE u3
    IN IF c.fragment # "" THEN u4 \o "#" \o c.fragment ELSE u4

\* urljoin(base, url) for the hrefs of the model: absolute URLs and paths that
\* start with "/" and hold no dot segment (their path is kept as it is); any
\* other reference resolves against the base path, which the model leaves out
urljoin_parsed(url, b, u) ==
    IF u.scheme # b.scheme \/ u.scheme \notin uses_relative THEN url
    ELSE IF u.scheme \in uses_netloc /\ u.netloc # "" THEN urlunparse(u)
    ELSE urlunparse([u EXCEPT !.netloc = b.netloc])

\* urljoin: url is parsed with the scheme of the base as its default
urljoin_base(url, b) == urljoin_parsed(url, b, urlparse_scheme(url, b.scheme))

\* urljoin(base, url)
urljoin(base, url) == IF url = "" THEN base ELSE urljoin_base(url, urlparse(base))

(***************************************************************************)
(* WordPressCrawler.__init__: the crawler is built for BaseInput.          *)
(***************************************************************************)
\* the --url argument; the CLI's example gives it bare, a browser's address
\* bar gives it with the slash
BaseInputs == {"http://s", "http://s/"}

\* self.base_url = base_url.rstrip('/')
BaseUrlOf(input) == RStrip(input, "/")

\* self.domain = urlparse(base_url).netloc
DomainOf(input) == urlparse(input).netloc

(***************************************************************************)
(* The URL normalizer and the URL validator.                               *)
(***************************************************************************)
\* normalize_url: f"{parsed.scheme}://{parsed.netloc}{parsed.path}"
Normalized(parsed) == parsed.scheme \o "://" \o parsed.netloc \o parsed.path

\* normalize_url: the trailing slash removed, unless normalized is the root
StripTrailingSlash(parsed, normalized) ==
    IF normalized # parsed.scheme \o "://" \o parsed.netloc \o "/"
       /\ EndsWith(normalized, "/")
    THEN RStrip(normalized, "/")
    ELSE normalized

\* normalize_url, of urlparse(url)
normalize_parsed(parsed) == StripTrailingSlash(parsed, Normalized(parsed))

\* normalize_url with the trailing slash kept (a plausible slip)
normalize_url_keep_slash(url) == Normalized(urlparse(url))

\* normalize_url(url)
normalize_url(url) == normalize_parsed(urlparse(url))

skip_extensions == {".jpg", ".jpeg", ".png", ".gif", ".pdf", ".zip", ".css", ".js",
                    ".ico", ".svg", ".webp", ".woff", ".woff2", ".ttf", ".eot"}

skip_paths == {"/wp-admin", "/wp-login", "/wp-includes", "/wp-content/uploads",
               "/feed", "/xmlrpc.php", "/wp-json"}

skip_params == {"replytocom", "share=", "like_comment", "print="}

\* is_valid_url: the checks after the one of the host, path_lower being
\* parsed.path.lower()
is_valid_path(parsed, path_lower) ==
    /\ ~ \E ext \in skip_extensions : EndsWith(path_lower, ext)
    /\ ~ \E skip \in skip_paths : StartsWith(path_lower, skip)
    /\ ~ (parsed.query # "" /\ \E param \in skip_params : Contains(parsed.query, param))

\* is_valid_url, of urlparse(url)
is_valid_parsed(dom, parsed) ==
    parsed.netloc = dom /\ is_valid_path(parsed, Lower(parsed.path))

\* is_valid_url that accepts every host (a plausible slip)
is_valid_url_any_host(dom, url) == is_valid_path(urlparse(url), Lower(urlparse(url).path))

\* is_valid_url(url), for a crawler of the given domain
is_valid_url(dom, url) == is_valid_parsed(dom, urlparse(url))

(***************************************************************************)
(* The page classifier and the redirect mapper.                            *)
(***************************************************************************)
PageTypes == {"homepage", "property", "blog", "archive", "agent", "about", "contact",
              "privacy", "terms", "service", "rental", "location", "faq", "page",
              "unknown"}

\* any(x in path for x in keywords)
AnyIn(keywords, path) == \E x \in keywords : Contains(path, x)

\* the rules of detect_page_type with the blog rules ahead of the listing rules
\* (a plausible slip)
detect_for_path_blog_first(path, body_class_str) ==
    IF AnyIn({"/blog/", "/news/", "/article/"}, path) THEN "blog"
    ELSE IF Contains(body_class_str, "single-post") THEN "blog"
    ELSE IF AnyIn({"/property/", "/listing/", "/villa/", "/house/", "/condo/",
                   "/apartment/"}, path) THEN "property"
    ELSE IF Contains(body_class_str, "single-property")
            \/ Contains(body_class_str, "single-listing") THEN "property"
    ELSE IF AnyIn({"/category/", "/tag/"}, path) THEN "archive"
    ELSE IF Contains(body_class_str, "archive")
            \/ Contains(body_class_str, "category") THEN "archive"
    ELSE IF AnyIn({"/agent/", "/agents/"}, path) THEN "agent"
    ELSE IF path \in {"/", ""} THEN "homepage"
    ELSE IF AnyIn({"/about", "/over-ons", "/team"}, path) THEN "about"
    ELSE IF AnyIn({"/contact", "/contactus"}, path) THEN "contact"
    ELSE IF AnyIn({"/privacy", "/gdpr"}, path) THEN "privacy"
    ELSE IF AnyIn({"/terms", "/voorwaarden", "/conditions"}, path) THEN "terms"
    ELSE IF AnyIn({"/service", "/dienst"}, path) THEN "service"
    ELSE IF AnyIn({"/rental", "/verhuur", "/rent"}, path) THEN "rental"
    ELSE IF AnyIn({"/location", "/area", "/region"}, path) THEN "location"
    ELSE IF AnyIn({"/faq", "/veelgestelde-vragen"}, path) THEN "faq"
    ELSE IF Contains(body_class_str, "page") THEN "page"
    ELSE "unknown"

\* detect_page_type: the rules in their order, path being
\* urlparse(url).path.lower(); body_class_str is the page's body classes joined
\* by spaces, "" when the page has no body or no class
detect_for_path(path, body_class_str) ==
    IF AnyIn({"/property/", "/listing/", "/villa/", "/house/", "/condo/",
              "/apartment/"}, path) THEN "property"
    ELSE IF Contains(body_class_str, "single-property")
            \/ Contains(body_class_str, "single-listing") THEN "property"
    ELSE IF AnyIn({"/blog/", "/news/", "/article/"}, path) THEN "blog"
    ELSE IF Contains(body_class_str, "single-post") THEN "blog"
    ELSE IF AnyIn({"/category/", "/tag/"}, path) THEN "archive"
    ELSE IF Contains(body_class_str, "archive")
            \/ Contains(body_class_str, "category") THEN "archive"
    ELSE IF AnyIn({"/agent/", "/agents/"}, path) THEN "agent"
    ELSE IF path \in {"/", ""} THEN "homepage"
    ELSE IF AnyIn({"/about", "/over-ons", "/team"}, path) THEN "about"
    ELSE IF AnyIn({"/contact", "/contactus"}, path) THEN "contact"
    ELSE IF AnyIn({"/privacy", "/gdpr"}, path) THEN "privacy"
    ELSE IF AnyIn({"/terms", "/voorwaarden", "/conditions"}, path) THEN "terms"
    ELSE IF AnyIn({"/service", "/dienst"}, path) THEN "service"
    ELSE IF AnyIn({"/rental", "/verhuur", "/rent"}, path) THEN "rental"
    ELSE IF AnyIn({"/location", "/area", "/region"}, path) THEN "location"
    ELSE IF AnyIn({"/faq", "/veelgestelde-vragen"}, path) THEN "faq"
    ELSE IF Contains(body_class_str, "page") THEN "page"
    ELSE "unknown"

\* detect_page_type(url, soup)
detect_page_type(url, body_class_str) ==
    detect_for_path(Lower(urlparse(url).path), body_class_str)

redirect_rules == [homepage |-> "/", about |-> "/about", contact |-> "/contact",
                   privacy |-> "/privacy-policy", terms |-> "/terms-and-conditions",
                   rental |-> "/rental-services", faq |-> "/faq"]

\* re.sub(r'^/(a|b|...)/', repl, path): the leading segment, if one of words
ReSubPrefix(words, repl, path) ==
    IF \E w \in words : StartsWith(path, "/" \o w \o "/")
    THEN LET w == CHOOSE x \in words : StartsWith(path, "/" \o x \o "/")
         IN repl \o Slice(path, Len(w) + 3, Len(path))
    ELSE path

\* path.rstrip('/').split('/')[-1]
Slug(path) == LastSegment(RStrip(path, "/"))

\* the two re.sub of suggest_redirect, in their order
CleanPath(path) ==
    ReSubPrefix({"property", "listing", "properties"}, "/properties/phuket/other/",
                ReSubPrefix({"blog", "news", "article"}, "/blogs/", path))

\* the rules of suggest_redirect with a fallback that returns the cleaned path as
\* it is (a plausible slip)
redirect_for_path_raw_fallback(page_type, path) ==
    IF page_type \in DOMAIN redirect_rules THEN redirect_rules[page_type]
    ELSE IF page_type = "property" THEN "/listings/" \o Slug(path)
    ELSE IF page_type = "blog" THEN "/blogs/" \o Slug(path)
    ELSE IF page_type = "agent" THEN "/about"
    ELSE IF page_type = "archive" THEN "/properties"
    ELSE IF page_type = "location" THEN "/locations/" \o Slug(path)
    ELSE IF page_type = "service" THEN "/services/" \o Slug(path)
    ELSE CleanPath(path)

\* suggest_redirect: the rules, path being urlparse(page.url).path and
\* clean_path the path after the two re.sub
redirect_for_path(page_type, path, clean_path) ==
    IF page_type \in DOMAIN redirect_rules THEN redirect_rules[page_type]
    ELSE IF page_type = "property" THEN "/listings/" \o Slug(path)
    ELSE IF page_type = "blog" THEN "/blogs/" \o Slug(path)
    ELSE IF page_type = "agent" THEN "/about"
    ELSE IF page_type = "archive" THEN "/properties"
    ELSE IF page_type = "location" THEN "/locations/" \o Slug(path)
    ELSE IF page_type = "service" THEN "/services/" \o Slug(path)
    ELSE IF clean_path # path THEN clean_path
    ELSE "/properties"

\* suggest_redirect whose fallback returns the cleaned path as it is (a plausible slip)
suggest_redirect_raw_fallback(page_type, url) ==
    redirect_for_path_raw_fallback(page_type, urlparse(url).path)

\* suggest_redirect(page), of page.page_type and page.url
suggest_redirect(page_type, url) ==
    redirect_for_path(page_type, urlparse(url).path, CleanPath(urlparse(url).path))

\* PageInfo(url, page_type, status_code=200, ...), the suggested redirect
\* filled in: the fields the crawl decides
PageInfo(url, page_type) ==
    [url |-> url, page_type |-> page_type, status_code |-> 200,
     suggested_redirect |-> suggest_redirect(page_type, url)]

\* extract_page_info(url, soup)
extract_page_info(url, body_class_str) ==
    PageInfo(url, detect_page_type(url, body_class_str))

(***************************************************************************)
(* generate_redirect_config: the redirect rules of a crawl result, as a    *)
(* next.config.ts snippet and as the JSON of vercel.json.                  *)
(***************************************************************************)
\* {'source': source, 'destination': page.suggested_redirect, 'permanent': True}
redirect_entry(page) ==
    [source |-> urlparse(page.url).path, destination |-> page.suggested_redirect,
     permanent |-> TRUE]

\* the test of a page without the skip of the homepage (a plausible slip)
has_redirect_entry_also_homepage(page) ==
    urlparse(page.url).path # "" /\ page.suggested_redirect # ""

\* if page.page_type != 'homepage': ... if source and page.suggested_redirect
has_redirect_entry(page) ==
    /\ page.page_type # "homepage"
    /\ urlparse(page.url).path # ""
    /\ page.suggested_redirect # ""

\* the entries of the pages that have one, in the order of the pages
entries_of(kept) == [i \in DOMAIN kept |-> redirect_entry(kept[i])]

\* the list "redirects" of the 'nextjs' branch
nextjs_redirects(page_list) == entries_of(SelectSeq(page_list, has_redirect_entry))

\* the list "redirects" of the 'vercel' branch
vercel_redirects(page_list) == entries_of(SelectSeq(page_list, has_redirect_entry))

\* for r in redirects: config += f"    {{ source: '...', destination: '...', permanent: true }},\n"
RECURSIVE nextjs_lines(_)
nextjs_lines(redirects) ==
    IF redirects = <<>> THEN ""
    ELSE "    { source: '" \o Head(redirects).source \o "', destination: '"
         \o Head(redirects).destination \o "', permanent: true },\n"
         \o nextjs_lines(Tail(redirects))

\* the TypeScript text of the 'nextjs' branch
nextjs_config(redirects) ==
    "// Add this to your next.config.ts\nasync redirects() {\n  return [\n"
    \o nextjs_lines(redirects) \o "  ];\n}"

\* json.dumps of one entry, at indent level 2 of indent=2
json_entry(r) ==
    "    {\n      \"source\": \"" \o r.source \o "\",\n      \"destination\": \""
    \o r.destination \o "\",\n      \"permanent\": "
    \o (IF r.permanent THEN "true" ELSE "false") \o "\n    }"

\* json.dumps of the entries of a non-empty list, separated by ",\n"
RECURSIVE json_entries(_)
json_entries(redirects) ==
    IF Len(redirects) = 1 THEN json_entry(Head(redirects))
    ELSE json_entry(Head(redirects)) \o ",\n" \o json_entries(Tail(redirects))

\* json.dumps({'redirects': redirects}, indent=2), the strings holding nothing
\* that JSON escapes
vercel_config(redirects) ==
    IF redirects = <<>> THEN "{\n  \"redirects\": []\n}"
    ELSE "{\n  \"redirects\": [\n" \o json_entries(redirects) \o "\n  ]\n}"

\* generate_redirect_config(pages, output_format): the text returned, together
\* with the list "redirects" it is written from
generate_redirect_config(page_list, output_format) ==
    IF output_format = "nextjs"
    THEN [redirects |-> nextjs_redirects(page_list),
          config |-> nextjs_config(nextjs_redirects(page_list))]
    ELSE IF output_format = "vercel"
    THEN [redirects |-> vercel_redirects(page_list),
          config |-> vercel_config(vercel_redirects(page_list))]
    ELSE [redirects |-> <<>>, config |-> ""]

(***************************************************************************)
(* The site: what the network may answer.  A response is a record; exc     *)
(* stands for session.get raising requests.RequestException, in which case *)
(* there is no status and no body.                                         *)
(***************************************************************************)
\* <loc> texts a sitemap may list: in scope, in scope only before it is
\* normalized, and foreign
SitemapRaw == {"http://s/p/", "http://s/a.js/", "http://x/p"}

\* the <loc> of a child sitemap
ChildLoc == "http://s/post-sitemap.xml"

\* <loc> texts a child sitemap may list: in scope and foreign
ChildRaw == {"http://s/p/", "http://x/p"}

\* statuses other than 200 the site answers with
ErrStatuses == {404, 500}

\* href attributes a page may hold
Hrefs == {"http://s", "/", "/p/", "http://s/p", "/blog/a", "http://x/p", "/a.js",
          "/q?share=1"}

\* the class attribute of <body>, joined by spaces
BodyClasses == {"", "page"}

\* lists of at most n elements of S
SeqsUpTo(S, n) == UNION {[1..k -> S] : k \in 0..n}

\* sets of at most n elements of S
SetsUpTo(S, n) == {T \in SUBSET S : Cardinality(T) <= n}

None == [none |-> TRUE]

\* what session.get(loc of a <sitemap> entry) gives; loc = "" is an entry
\* without <loc>, which is never fetched
ChildSitemaps ==
    {[loc |-> "", exc |-> FALSE, status_code |-> 0, urls |-> <<>>],
     [loc |-> ChildLoc, exc |-> TRUE, status_code |-> 0, urls |-> <<>>],
     [loc |-> ChildLoc, exc |-> FALSE, status_code |-> 404, urls |-> <<>>]}
    \cup {[loc |-> ChildLoc, exc |-> FALSE, status_code |-> 200, urls |-> e] :
            e \in SeqsUpTo(ChildRaw, MaxEntries)}

\* what session.get(sitemap_url) gives: the document's <sitemap> entries, each
\* with the answer to its own fetch, and the document's <url> entries
SitemapResponses ==
    {[exc |-> TRUE, status_code |-> 0, sitemaps |-> <<>>, urls |-> <<>>],
     [exc |-> FALSE, status_code |-> 404, sitemaps |-> <<>>, urls |-> <<>>]}
    \cup {[exc |-> FALSE, status_code |-> 200, sitemaps |-> c, urls |-> e] :
            c \in SeqsUpTo(ChildSitemaps, MaxChildren),
            e \in SeqsUpTo(SitemapRaw, MaxEntries)}

\* what session.get(url) gives for a page
PageResponses ==
    {[exc |-> TRUE, status_code |-> 0, body_class |-> "", hrefs |-> {}]}
    \cup {[exc |-> FALSE, status_code |-> st, body_class |-> "", hrefs |-> {}] :
            st \in ErrStatuses}
    \cup {[exc |-> FALSE, status_code |-> 200, body_class |-> c, hrefs |-> h] :
            c \in BodyClasses, h \in SetsUpTo(Hrefs, MaxLinks)}

(***************************************************************************)
(* The functions above, tabulated over the strings a run can hand to them, *)
(* so that each value is computed once.                                    *)
(***************************************************************************)
\* S with every URL that normalizing or following an href adds to it, once and
\* until nothing is added
UrlStep(S) == S \cup {normalize_url(u) : u \in S} \cup {urljoin(c, h) : c \in S, h \in Hrefs}

RECURSIVE UrlClosure(_)
UrlClosure(S) == IF UrlStep(S) = S THEN S ELSE UrlClosure(UrlStep(S))

KnownUrls == UrlClosure(SitemapRaw \cup {BaseUrlOf(input) : input \in BaseInputs})

Domains == {DomainOf(input) : input \in BaseInputs}

NormalizeUrl == [u \in KnownUrls |-> normalize_url(u)]

IsValidUrl == [dom \in Domains, u \in KnownUrls |-> is_valid_url(dom, u)]

UrlJoin == [c \in KnownUrls, h \in Hrefs |-> urljoin(c, h)]

PageInfoOf == [u \in KnownUrls, c \in BodyClasses |-> extract_page_info(u, c)]

(***************************************************************************)
(* The state of one run.                                                   *)
(***************************************************************************)
VARIABLES
    pc,             \* where the run stands: "sitemap", "seed", "loop", "fetch",
                    \* "sleep", "done"; "call", "returned", "again" for a single call
    base_url,       \* self.base_url
    domain,         \* self.domain
    max_pages,      \* self.max_pages
    visited,        \* self.visited
    to_visit,       \* self.to_visit
    pages,          \* self.pages
    errors,         \* self.errors
    sitemap_urls,   \* crawl's sitemap_urls
    page_count,     \* crawl's page_count
    crawl_url,      \* crawl's url, the URL dequeued by this iteration
    loc_idx,        \* try_fetch_sitemap: the position in sitemap_locations
    all_urls,       \* try_fetch_sitemap's all_urls
    response,       \* the answer to the last session.get of the step
    probed,         \* history: the sitemap_url of every probe, in order
    found,          \* history: what each probed location added to all_urls
    child_fetches,  \* history: the child sitemaps fetched by the last probe
    fetched,        \* history: the URLs handed to fetch_page, in order
    skips,          \* history: how often the "already visited" branch ran
    extractions,    \* history: how often extract_links ran
    delays,         \* history: how often time.sleep(self.delay) ran
    fn_arg,         \* the argument of a single call; of the import tool, args
    fn_ret          \* its result; of the import tool, the locals of main

vars == <<pc, base_url, domain, max_pages, visited, to_visit, pages, errors,
          sitemap_urls, page_count, crawl_url, loc_idx, all_urls, response, probed, found,
          child_fetches, fetched, skips, extractions, delays, fn_arg, fn_ret>>

\* the state after WordPressCrawler(base_url, delay, max_pages)
Constructed(input, budget) ==
    /\ base_url = BaseUrlOf(input)
    /\ domain = DomainOf(input)
    /\ max_pages = budget
    /\ visited = {}
    /\ to_visit = {}
    /\ pages = <<>>
    /\ errors = <<>>
    /\ sitemap_urls = <<>>
    /\ page_count = 0
    /\ crawl_url = ""
    /\ loc_idx = 1
    /\ all_urls = <<>>
    /\ response = None
    /\ probed = <<>>
    /\ found = <<>>
    /\ child_fetches = <<>>
    /\ fetched = <<>>
    /\ skips = 0
    /\ extractions = 0
    /\ delays = 0

Init ==
    /\ pc = "sitemap"
    /\ \E input \in BaseInputs, budget \in 0..MaxBudget : Constructed(input, budget)
    /\ fn_arg = None
    /\ fn_ret = None

(***************************************************************************)
(* The sitemap resolver.                                                   *)
(***************************************************************************)
sitemap_locations ==
    <<"/sitemap.xml", "/sitemap_index.xml", "/wp-sitemap.xml", "/sitemap/",
      "/sitemap.xml.gz">>

\* the entries of urls that is_valid_url accepts, in order
ValidOnly(dom, urls) == SelectSeq(urls, LAMBDA u : IsValidUrl[dom, u])

\* _parse_sitemap(sitemap_url), r being the answer to its fetch
parse_sitemap(dom, r) ==
    IF ~r.exc /\ r.status_code = 200 THEN ValidOnly(dom, r.urls) ELSE <<>>

\* the loop over the <sitemap> entries of an index, given up at the first
\* child that fails (a plausible slip)
RECURSIVE ParseChildrenUntilFailure(_, _)
ParseChildrenUntilFailure(dom, sitemaps) ==
    IF sitemaps = <<>> THEN [urls |-> <<>>, fetched |-> <<>>]
    ELSE LET c == Head(sitemaps)
         IN IF c.loc = "" THEN ParseChildrenUntilFailure(dom, Tail(sitemaps))
            ELSE IF c.exc \/ c.status_code # 200
                 THEN [urls |-> <<>>, fetched |-> <<c.loc>>]
            ELSE LET rest == ParseChildrenUntilFailure(dom, Tail(sitemaps))
                 IN [urls |-> parse_sitemap(dom, c) \o rest.urls,
                     fetched |-> <<c.loc>> \o rest.fetched]

\* the loop over the <sitemap> entries of an index: the URLs it collects and
\* the child sitemaps it fetches
RECURSIVE ParseChildren(_, _)
ParseChildren(dom, sitemaps) ==
    IF sitemaps = <<>> THEN [urls |-> <<>>, fetched |-> <<>>]
    ELSE LET c == Head(sitemaps)
             rest == ParseChildren(dom, Tail(sitemaps))
         IN IF c.loc = "" THEN rest
            ELSE [urls |-> parse_sitemap(dom, c) \o rest.urls,
                  fetched |-> <<c.loc>> \o rest.fetched]

\* all_urls at the end of one iteration of the loop over sitemap_locations
ProbeLocation(dom, all, r) ==
    IF r.exc \/ r.status_code # 200 THEN all
    ELSE all \o ParseChildren(dom, r.sitemaps).urls \o ValidOnly(dom, r.urls)

\* "if all_urls: return all_urls", never taken (a plausible slip)
ReturnsNever(r, all) == FALSE

\* whether the iteration ends in "return all_urls"
Returns(r, all) == ~r.exc /\ r.status_code = 200 /\ all # <<>>

\* the last position of sitemap_locations
LastLocation == Len(sitemap_locations)

\* try_fetch_sitemap: one iteration of the loop over sitemap_locations.  The
\* response and the children fetched are locals of the iteration: the next
\* iteration overwrites them, so they are kept only when there is none
ProbeSitemap ==
    /\ pc = "sitemap"
    /\ loc_idx <= LastLocation
    /\ \E r \in SitemapResponses :
         \E new_all \in {ProbeLocation(domain, all_urls, r)} :
            /\ probed' = Append(probed, base_url \o sitemap_locations[loc_idx])
            /\ found' = Append(found, SubSeq(new_all, Len(all_urls) + 1, Len(new_all)))
            /\ all_urls' = new_all
            /\ IF Returns(r, new_all) \/ loc_idx = LastLocation
               THEN /\ response' = r
                    /\ child_fetches' = IF ~r.exc /\ r.status_code = 200
                                        THEN ParseChildren(domain, r.sitemaps).fetched
                                        ELSE <<>>
               ELSE /\ response' = None
                    /\ child_fetches' = <<>>
            /\ IF Returns(r, new_all)
               THEN /\ sitemap_urls' = new_all
                    /\ pc' = "seed"
                    /\ loc_idx' = loc_idx
               ELSE /\ sitemap_urls' = sitemap_urls
                    /\ pc' = "sitemap"
                    /\ loc_idx' = loc_idx + 1
    /\ UNCHANGED <<base_url, domain, max_pages, visited, to_visit, pages, errors,
                   page_count, crawl_url, fetched, skips, extractions, delays, fn_arg, fn_ret>>

\* try_fetch_sitemap: the loop is over, "return []"
SitemapExhausted ==
    /\ pc = "sitemap"
    /\ loc_idx > LastLocation
    /\ sitemap_urls' = <<>>
    /\ pc' = "seed"
    /\ UNCHANGED <<base_url, domain, max_pages, visited, to_visit, pages, errors,
                   page_count, crawl_url, loc_idx, all_urls, response, probed, found,
                   child_fetches, fetched, skips, extractions, delays, fn_arg, fn_ret>>

(***************************************************************************)
(* The crawl.                                                              *)
(***************************************************************************)
\* the frontier seeded with the base URL as well as the sitemap (a plausible slip)
seed_frontier_with_base(pending, seeds, base) ==
    pending \cup {NormalizeUrl[seeds[i]] : i \in DOMAIN seeds} \cup {base}

\* crawl, step 1: the frontier after seeding
seed_frontier(pending, seeds, base) ==
    IF seeds # <<>>
    THEN pending \cup {NormalizeUrl[seeds[i]] : i \in DOMAIN seeds}
    ELSE pending \cup {base}

\* crawl: the frontier is seeded, the locals of try_fetch_sitemap are gone
Seed ==
    /\ pc = "seed"
    /\ to_visit' = seed_frontier(to_visit, sitemap_urls, base_url)
    /\ page_count' = 0
    /\ response' = None
    /\ all_urls' = <<>>
    /\ child_fetches' = <<>>
    /\ pc' = "loop"
    /\ UNCHANGED <<base_url, domain, max_pages, visited, pages, errors, sitemap_urls,
                   crawl_url, loc_idx, probed, found, fetched, skips, extractions, delays,
                   fn_arg, fn_ret>>

\* the loop condition with <= for < (a plausible slip)
LoopConditionInclusive(pending, count, budget) == pending # {} /\ count <= budget

\* while self.to_visit and page_count < self.max_pages
LoopCondition(pending, count, budget) == pending # {} /\ count < budget

\* crawl: the loop condition is false
LoopExit ==
    /\ pc = "loop"
    /\ ~LoopCondition(to_visit, page_count, max_pages)
    /\ pc' = "done"
    /\ UNCHANGED <<base_url, domain, max_pages, visited, to_visit, pages, errors,
                   sitemap_urls, page_count, crawl_url, loc_idx, all_urls, response, probed,
                   found, child_fetches, fetched, skips, extractions, delays, fn_arg,
                   fn_ret>>

\* the dequeue without "self.visited.add(url)" (a plausible slip)
DequeueUnmarked ==
    /\ pc = "loop"
    /\ LoopCondition(to_visit, page_count, max_pages)
    /\ \E u \in to_visit :
         /\ to_visit' = to_visit \ {u}
         /\ crawl_url' = u
         /\ IF u \in visited
            THEN /\ skips' = skips + 1
                 /\ pc' = "loop"
                 /\ UNCHANGED page_count
            ELSE /\ page_count' = page_count + 1
                 /\ pc' = "fetch"
                 /\ skips' = skips
    /\ UNCHANGED <<base_url, domain, max_pages, visited, pages, errors, sitemap_urls,
                   loc_idx, all_urls, response, probed, found, child_fetches, fetched,
                   extractions, delays, fn_arg, fn_ret>>

\* the dequeue without "page_count += 1" (a plausible slip)
DequeueUncounted ==
    /\ pc = "loop"
    /\ LoopCondition(to_visit, page_count, max_pages)
    /\ \E u \in to_visit :
         /\ to_visit' = to_visit \ {u}
         /\ crawl_url' = u
         /\ IF u \in visited
            THEN /\ skips' = skips + 1
                 /\ pc' = "loop"
                 /\ UNCHANGED visited
            ELSE /\ visited' = visited \cup {u}
                 /\ pc' = "fetch"
                 /\ skips' = skips
    /\ UNCHANGED <<base_url, domain, max_pages, pages, errors, sitemap_urls, page_count,
                   loc_idx, all_urls, response, probed, found, child_fetches, fetched,
                   extractions, delays, fn_arg, fn_ret>>

\* crawl: url = self.to_visit.pop(), any element of the set; the skip of a
\* visited URL, or visited.add(url) and page_count += 1
Dequeue ==
    /\ pc = "loop"
    /\ LoopCondition(to_visit, page_count, max_pages)
    /\ \E u \in to_visit :
         /\ to_visit' = to_visit \ {u}
         /\ crawl_url' = u
         /\ IF u \in visited
            THEN /\ skips' = skips + 1
                 /\ pc' = "loop"
                 /\ UNCHANGED <<visited, page_count>>
            ELSE /\ visited' = visited \cup {u}
                 /\ page_count' = page_count + 1
                 /\ pc' = "fetch"
                 /\ skips' = skips
    /\ UNCHANGED <<base_url, domain, max_pages, pages, errors, sitemap_urls, loc_idx,
                   all_urls, response, probed, found, child_fetches, fetched,
                   extractions, delays, fn_arg, fn_ret>>

\* fetch_page that swallows a RequestException as _parse_sitemap does, without
\* an entry in self.errors (a plausible slip)
fetch_page_silent_exception(errs, u, r) ==
    IF ~r.exc /\ r.status_code # 200
    THEN Append(errs, [url |-> u, status_code |-> r.status_code])
    ELSE errs

\* fetch_page that records every failure with status 0 (a plausible slip)
fetch_page_status_zero(errs, u, r) ==
    IF r.exc \/ r.status_code # 200
    THEN Append(errs, [url |-> u, status_code |-> 0])
    ELSE errs

\* fetch_page(url): self.errors after the fetch, r being the answer
fetch_page(errs, u, r) ==
    IF r.exc THEN Append(errs, [url |-> u, status_code |-> 0])
    ELSE IF r.status_code # 200 THEN Append(errs, [url |-> u, status_code |-> r.status_code])
    ELSE errs

\* fetch_page(url) returns a soup, not None
HasSoup(r) == ~r.exc /\ r.status_code = 200

\* extract_links(soup, current_url)
extract_links(dom, hrefs, current_url) ==
    {n \in {NormalizeUrl[UrlJoin[current_url, h]] : h \in hrefs} : IsValidUrl[dom, n]}

\* the enqueue of the new links without the look at visited (a plausible slip)
enqueue_unchecked(pending, seen, new_links) == pending \cup new_links

\* for link in new_links: if link not in self.visited: self.to_visit.add(link)
enqueue(pending, seen, new_links) == pending \cup {l \in new_links : l \notin seen}

\* the new PageRecord put at the head of the list (a plausible slip)
record_page_first(page_list, page) == <<page>> \o page_list

\* self.pages.append(page_info)
record_page(page_list, page) == Append(page_list, page)

\* link extraction that runs in sitemap mode too (a plausible slip)
ExtractsAlways(seeds) == TRUE

\* "if not sitemap_urls": links are extracted
Extracts(seeds) == seeds = <<>>

\* crawl: the rest of the iteration up to the delay: fetch_page, and on a soup
\* extract_page_info and, without a sitemap, extract_links; of the response the
\* status outlives the step, the soup does not
FetchPage ==
    /\ pc = "fetch"
    /\ \E r \in PageResponses :
         /\ response' = [exc |-> r.exc, status_code |-> r.status_code]
         /\ fetched' = Append(fetched, crawl_url)
         /\ errors' = fetch_page(errors, crawl_url, r)
         /\ IF HasSoup(r)
            THEN /\ pages' = record_page(pages, PageInfoOf[crawl_url, r.body_class])
                 /\ IF Extracts(sitemap_urls)
                    THEN /\ to_visit' = enqueue(to_visit, visited,
                                                extract_links(domain, r.hrefs, crawl_url))
                         /\ extractions' = extractions + 1
                    ELSE UNCHANGED <<to_visit, extractions>>
            ELSE UNCHANGED <<pages, to_visit, extractions>>
    /\ pc' = "sleep"
    /\ UNCHANGED <<base_url, domain, max_pages, visited, sitemap_urls, page_count, crawl_url,
                   loc_idx, all_urls, probed, found, child_fetches, skips, delays,
                   fn_arg, fn_ret>>

\* the delay inside "if soup": none after a failed fetch (a plausible slip)
sleep_on_success(n, r) == IF r.exc \/ r.status_code # 200 THEN n ELSE n + 1

\* time.sleep(self.delay), whatever fetch_page returned: the delays so far
sleep(n, r) == n + 1

\* crawl: time.sleep(self.delay), the end of the iteration
Sleep ==
    /\ pc = "sleep"
    /\ delays' = sleep(delays, response)
    /\ response' = None
    /\ pc' = "loop"
    /\ UNCHANGED <<base_url, domain, max_pages, visited, to_visit, pages, errors,
                   sitemap_urls, page_count, crawl_url, loc_idx, all_urls, probed, found,
                   child_fetches, fetched, skips, extractions, fn_arg, fn_ret>>

Next == ProbeSitemap \/ SitemapExhausted \/ Seed \/ LoopExit \/ Dequeue \/ FetchPage \/ Sleep

\* one run of crawl() on any site
Spec == Init /\ [][Next]_vars

\* the run goes on while it can: nothing in crawl() waits for anything but the
\* network, and every request has a timeout
FairSpec == Spec /\ WF_vars(Next)

(***************************************************************************)
(* Single calls of the pure functions, on a crawler that is only           *)
(* constructed: the argument is drawn at the start, the call returns.      *)
(***************************************************************************)
\* everything but pc and the call's argument and result
crawl_vars == <<base_url, domain, max_pages, visited, to_visit, pages, errors,
                sitemap_urls, page_count, crawl_url, loc_idx, all_urls, response, probed,
                found, child_fetches, fetched, skips, extractions, delays>>

\* the strings of at most n characters of alphabet
RECURSIVE StringsUpTo(_, _)
StringsUpTo(alphabet, n) ==
    IF n = 0 THEN {""}
    ELSE {""} \cup {c \o t : c \in alphabet, t \in StringsUpTo(alphabet, n - 1)}

\* arguments of normalize_url: well-formed URLs, scheme-less and malformed ones
NormalizeInputs ==
    {pre \o t : pre \in {"", "http://s", "http:", "//s"},
                t \in StringsUpTo({"/", "a", ";", "?", "#", ":"}, MaxTail)}

InitNormalize ==
    /\ pc = "call"
    /\ Constructed("http://s", 0)
    /\ fn_arg \in NormalizeInputs
    /\ fn_ret = <<>>

\* normalize_url(fn_arg)
CallNormalize ==
    /\ pc = "call"
    /\ fn_ret' = <<normalize_url(fn_arg)>>
    /\ pc' = "returned"
    /\ UNCHANGED <<crawl_vars, fn_arg>>

\* normalize_url of the result of the first call
CallNormalizeAgain ==
    /\ pc = "returned"
    /\ fn_ret' = Append(fn_ret, normalize_url(fn_ret[1]))
    /\ pc' = "again"
    /\ UNCHANGED <<crawl_vars, fn_arg>>

NextNormalize == CallNormalize \/ CallNormalizeAgain

\* normalize_url called on any string, and again on its result
SpecNormalize == InitNormalize /\ [][NextNormalize]_vars

\* paths of page URLs: the segments the redirect mapper rewrites and one it
\* does not, followed by any tail
RedirectPaths ==
    {pre \o t : pre \in {"", "/blog", "/news", "/article", "/property", "/listing",
                         "/properties", "/x"},
                t \in StringsUpTo({"/", "a"}, MaxTail)}

InitRedirect ==
    /\ pc = "call"
    /\ Constructed("http://s", 0)
    /\ \E path \in RedirectPaths :
         \/ \E t \in PageTypes : fn_arg = [page_type |-> t, url |-> "http://s" \o path]
         \/ \E c \in BodyClasses : fn_arg = [body_class |-> c, url |-> "http://s" \o path]
    /\ fn_ret = <<>>

\* suggest_redirect(page), page being of any type and URL
CallSuggestRedirect ==
    /\ pc = "call"
    /\ "page_type" \in DOMAIN fn_arg
    /\ fn_ret' = <<suggest_redirect(fn_arg.page_type, fn_arg.url)>>
    /\ pc' = "returned"
    /\ UNCHANGED <<crawl_vars, fn_arg>>

\* extract_page_info(url, soup): the PageRecord of a fetched page
CallExtractPageInfo ==
    /\ pc = "call"
    /\ "body_class" \in DOMAIN fn_arg
    /\ fn_ret' = <<extract_page_info(fn_arg.url, fn_arg.body_class).suggested_redirect>>
    /\ pc' = "returned"
    /\ UNCHANGED <<crawl_vars, fn_arg>>

NextRedirect == CallSuggestRedirect \/ CallExtractPageInfo

\* suggest_redirect called on any page, directly and by extract_page_info
SpecRedirect == InitRedirect /\ [][NextRedirect]_vars

\* pieces of URL paths: one for each group of keywords of the classifier, in
\* either case, with and without the closing slash, and one that no rule knows
PathPieces ==
    {"", "/", "/property/", "/Villa/", "/blog/", "/news", "/tag/", "/agent/", "/about",
     "/contactus", "/gdpr", "/terms", "/dienst", "/rent", "/area", "/faq", "/x"}

\* the paths of at most n pieces
RECURSIVE PathsOf(_)
PathsOf(n) == IF n = 0 THEN {""} ELSE {a \o b : a \in PathPieces, b \in PathsOf(n - 1)}

\* class attributes of <body>, joined by spaces: none, one marker of each
\* group, and a theme's own class that holds the text "page"
ClassifyBodyClasses ==
    {"", "page", "single-property", "single-post", "archive", "home page-template"}

InitClassify ==
    /\ pc = "call"
    /\ Constructed("http://s", 0)
    /\ \E path \in PathsOf(MaxPieces), c \in ClassifyBodyClasses :
         fn_arg = [body_class |-> c, url |-> "http://s" \o path]
    /\ fn_ret = <<>>

\* detect_page_type(url, soup)
CallDetectPageType ==
    /\ pc = "call"
    /\ fn_ret' = <<detect_page_type(fn_arg.url, fn_arg.body_class)>>
    /\ pc' = "returned"
    /\ UNCHANGED <<crawl_vars, fn_arg>>

NextClassify == CallDetectPageType

\* detect_page_type called on any path and any body class
SpecClassify == InitClassify /\ [][NextClassify]_vars

\* the page types whose redirect is built from the slug
SlugTypes == {"property", "blog", "location", "service"}

\* URLs of pages: a prefix with or without a keyword of the classifier and any
\* tail, ";" being the separator of a segment's parameters, and the two URLs
\* of the documented scenarios
SlugUrls ==
    {"http://s" \o pre \o t : pre \in {"", "/property", "/blog", "/x"},
                              t \in StringsUpTo({"/", "a", ";"}, MaxTail)}
    \cup {"https://example.com/property/sea-view-villa/",
          "https://example.com/blog/top-5-beaches"}

InitSlug ==
    /\ pc = "call"
    /\ Constructed("http://s", 0)
    /\ \E u \in SlugUrls :
         \/ \E t \in SlugTypes : fn_arg = [page_type |-> t, url |-> u]
         \/ \E c \in BodyClasses : fn_arg = [body_class |-> c, url |-> u]
    /\ fn_ret = <<>>

\* suggest_redirect(page), page being of a given type: the type and the redirect
CallSuggestRedirectOfType ==
    /\ pc = "call"
    /\ "page_type" \in DOMAIN fn_arg
    /\ fn_ret' = <<[page_type |-> fn_arg.page_type,
                    suggested_redirect |-> suggest_redirect(fn_arg.page_type, fn_arg.url)]>>
    /\ pc' = "returned"
    /\ UNCHANGED <<crawl_vars, fn_arg>>

\* extract_page_info(url, soup): the type detected and the redirect
CallClassifyAndRedirect ==
    /\ pc = "call"
    /\ "body_class" \in DOMAIN fn_arg
    /\ \E page \in {extract_page_info(fn_arg.url, fn_arg.body_class)} :
         fn_ret' = <<[page_type |-> page.page_type,
                      suggested_redirect |-> page.suggested_redirect]>>
    /\ pc' = "returned"
    /\ UNCHANGED <<crawl_vars, fn_arg>>

\* suggest_redirect for the page of the same type whose URL has one more "/"
CallSuggestRedirectWithSlash ==
    /\ pc = "returned"
    /\ fn_ret' = Append(fn_ret, suggest_redirect(fn_ret[1].page_type, fn_arg.url \o "/"))
    /\ pc' = "again"
    /\ UNCHANGED <<crawl_vars, fn_arg>>

NextSlug == CallSuggestRedirectOfType \/ CallClassifyAndRedirect \/ CallSuggestRedirectWithSlash

\* suggest_redirect called on a page, and on the page with a trailing slash more
SpecSlug == InitSlug /\ [][NextSlug]_vars

\* URLs of PageRecords: the base URL as the crawl seeds it, the root, and
\* pages below it
ConfigUrls == {"http://s", "http://s/", "http://s/p", "http://s/blog/a", "http://s/property/v"}

\* class attributes of <body> of those pages: none, and an archive template
ConfigBodyClasses == {"", "archive"}

\* the PageRecords the crawl builds for them
CrawledPages == {extract_page_info(u, c) : u \in ConfigUrls, c \in ConfigBodyClasses}

\* result.pages: lists of at most n PageRecords, no URL twice
PageLists(n) ==
    {l \in SeqsUpTo(CrawledPages, n) : \A i, j \in DOMAIN l : l[i].url = l[j].url => i = j}

InitConfig ==
    /\ pc = "call"
    /\ Constructed("http://s", 0)
    /\ fn_arg \in PageLists(MaxRecords)
    /\ fn_ret = <<>>

\* main: nextjs_config = generate_redirect_config(result.pages, 'nextjs')
CallGenerateNextjs ==
    /\ pc = "call"
    /\ fn_ret' = <<generate_redirect_config(fn_arg, "nextjs")>>
    /\ pc' = "returned"
    /\ UNCHANGED <<crawl_vars, fn_arg>>

\* main: vercel_config = generate_redirect_config(result.pages, 'vercel')
CallGenerateVercel ==
    /\ pc = "returned"
    /\ fn_ret' = Append(fn_ret, generate_redirect_config(fn_arg, "vercel"))
    /\ pc' = "again"
    /\ UNCHANGED <<crawl_vars, fn_arg>>

NextConfig == CallGenerateNextjs \/ CallGenerateVercel

\* the two redirect files written from one crawl result
SpecConfig == InitConfig /\ [][NextConfig]_vars

(***************************************************************************)
(* tools/scrape_property.py: one run of main.  A property is a dict; a     *)
(* value stands for what Python makes of it: "None" for None or null, "",  *)
(* "0" and "[]" for the empty values, any other text for a value that is   *)
(* true.  A key that is not in the dict is not in the DOMAIN.              *)
(***************************************************************************)
\* scrape_webpage(url, retries=3)
retries == 3

\* bool(v)
Truthy(v) == v \notin {"None", "", "0", "[]"}

\* data.get(key)
Get(data, key) == IF key \in DOMAIN data THEN data[key] ELSE "None"

required_fields ==
    <<"title", "location", "price", "beds", "baths", "sqft", "type", "category", "content">>

\* "Missing required field: ..." for the fields from position i on
RECURSIVE missing_fields(_, _)
missing_fields(data, i) ==
    IF i > Len(required_fields) THEN <<>>
    ELSE (IF ~Truthy(Get(data, required_fields[i]))
          THEN <<"Missing required field: " \o required_fields[i]>> ELSE <<>>)
         \o missing_fields(data, i + 1)

\* validate_property_data(data): the list of issues
validate_property_data(data) ==
    missing_fields(data, 1)
    \o (IF Get(data, "type") \notin {"FOR_SALE", "FOR_RENT"}
        THEN <<"Invalid type: " \o Get(data, "type") \o ". Must be FOR_SALE or FOR_RENT">>
        ELSE <<>>)
    \o (IF Get(data, "category") \notin {"LUXURY_VILLA", "APARTMENT", "RESIDENTIAL_HOME",
                                         "OFFICE_SPACES"}
        THEN <<"Invalid category: " \o Get(data, "category")>> ELSE <<>>)
    \o (IF ~Truthy(Get(data, "amenities")) THEN <<"At least one amenity is required">>
        ELSE <<>>)
    \o (IF ~Truthy(Get(data, "images")) THEN <<"At least one image is required">> ELSE <<>>)

\* a property with every field in order
GoodData ==
    [title |-> "Villa", location |-> "Phuket", price |-> "$1", beds |-> "3", baths |-> "2",
     sqft |-> "100", type |-> "FOR_SALE", category |-> "APARTMENT", content |-> "text",
     amenities |-> "[pool]", images |-> "[a.jpg]"]

\* what may stand for a field instead: the other type, and values that are
\* empty, null or not of the enumeration
OtherValues(key) ==
    IF key = "type" THEN {"FOR_RENT", "OTHER", ""}
    ELSE IF key = "category" THEN {"OTHER", ""}
    ELSE IF key \in {"amenities", "images"} THEN {"[]", "None"}
    ELSE IF key \in {"beds", "baths", "sqft"} THEN {"0"}
    ELSE {""}

\* the dicts that are d with one field dropped or given another value
OneDefect(d) ==
    UNION {{[k \in DOMAIN d \ {key} |-> d[k]]} \cup {[d EXCEPT ![key] = v] :
                                                        v \in OtherValues(key)} :
             key \in DOMAIN GoodData \cap DOMAIN d}

\* the dicts that differ from data in at most n fields
RECURSIVE Variants(_, _)
Variants(data, n) ==
    IF n = 0 THEN {data}
    ELSE Variants(data, n - 1) \cup UNION {OneDefect(d) : d \in Variants(data, n - 1)}

\* what the model of the AI, or the JSON file, may give
DataInputs == Variants(GoodData, MaxDefects)

\* extract_property_data_with_ai: the dict parsed from the answer, with the
\* scraped images, the icons of the amenities and the source URL put in
extract_property_data(answer, images) ==
    [k \in DOMAIN answer \cup {"images", "sourceUrl"}
          \cup (IF Truthy(Get(answer, "amenities")) THEN {"amenitiesWithIcons"} ELSE {}) |->
        IF k = "images" THEN images
        ELSE IF k = "sourceUrl" THEN "url"
        ELSE IF k = "amenitiesWithIcons" THEN "[icons]"
        ELSE answer[k]]

\* the import with the test of the issues left out (a plausible slip)
import_refused_never(issue_list) == FALSE

\* "if issues:" under "if args.do_import": the import is refused
import_refused(issue_list) == issue_list # <<>>

\* main has ended with a status
Exit(status) ==
    /\ pc' = "exited"
    /\ fn_ret' = [fn_ret EXCEPT !.exit_status = status]

InitImport ==
    /\ pc = "main"
    /\ Constructed("http://s", 0)
    /\ fn_arg \in [do_import : BOOLEAN, save : BOOLEAN, preview : BOOLEAN,
                   from_file : BOOLEAN]
    /\ fn_ret = [property_data |-> None, images |-> "[]", issues |-> <<>>, attempt |-> 0,
                 steps |-> <<>>, exit_status |-> 0]

\* main: "if args.from_file or args.url.endswith('.json')"
ChooseSource ==
    /\ pc = "main"
    /\ pc' = IF fn_arg.from_file THEN "load" ELSE "scrape"
    /\ UNCHANGED <<crawl_vars, fn_arg, fn_ret>>

\* main: json.load of the file, or sys.exit(1)
LoadFile ==
    /\ pc = "load"
    /\ \/ \E d \in DataInputs :
            /\ fn_ret' = [fn_ret EXCEPT !.property_data = d, !.steps = Append(@, "load")]
            /\ pc' = "validate"
       \/ /\ fn_ret' = [fn_ret EXCEPT !.steps = Append(@, "load"), !.exit_status = 1]
          /\ pc' = "exited"
    /\ UNCHANGED <<crawl_vars, fn_arg>>

\* scrape_webpage: one attempt of requests.get; a failure is retried until the
\* last attempt, whose failure raises and makes main exit with 1
ScrapeAttempt ==
    /\ pc = "scrape"
    /\ fn_ret.attempt < retries
    /\ \E steps_now \in {IF fn_ret.attempt = 0 THEN Append(fn_ret.steps, "scrape")
                         ELSE fn_ret.steps} :
         \/ \E imgs \in {"[]", "[a.jpg]"} :
               /\ fn_ret' = [fn_ret EXCEPT !.images = imgs, !.steps = steps_now]
               /\ pc' = "extract"
         \/ /\ fn_ret.attempt < retries - 1
            /\ fn_ret' = [fn_ret EXCEPT !.attempt = @ + 1, !.steps = steps_now]
            /\ pc' = "scrape"
         \/ /\ fn_ret.attempt = retries - 1
            /\ fn_ret' = [fn_ret EXCEPT !.steps = steps_now, !.exit_status = 1]
            /\ pc' = "exited"
    /\ UNCHANGED <<crawl_vars, fn_arg>>

\* main, step 2: extract_property_data_with_ai, or sys.exit(1)
ExtractWithAI ==
    /\ pc = "extract"
    /\ \/ \E answer \in DataInputs :
            /\ fn_ret' = [fn_ret EXCEPT
                            !.property_data = extract_property_data(answer, fn_ret.images),
                            !.steps = Append(@, "extract")]
            /\ pc' = "validate"
       \/ /\ fn_ret' = [fn_ret EXCEPT !.steps = Append(@, "extract"), !.exit_status = 1]
          /\ pc' = "exited"
    /\ UNCHANGED <<crawl_vars, fn_arg>>

\* main, step 3: issues = validate_property_data(property_data)
Validate ==
    /\ pc = "validate"
    /\ fn_ret' = [fn_ret EXCEPT !.issues = validate_property_data(fn_ret.property_data),
                                !.steps = Append(@, "validate")]
    /\ pc' = "display"
    /\ UNCHANGED <<crawl_vars, fn_arg>>

\* main: the data is printed; len() of an amenities or images that is None
\* raises TypeError, which nothing catches: the interpreter exits with 1
Display ==
    /\ pc = "display"
    /\ IF \E k \in {"amenities", "images"} :
             k \in DOMAIN fn_ret.property_data /\ fn_ret.property_data[k] = "None"
       THEN Exit(1)
       ELSE pc' = "save" /\ fn_ret' = fn_ret
    /\ UNCHANGED <<crawl_vars, fn_arg>>

\* main: "if args.save or args.preview": save_to_file, whose failure to write
\* nothing catches
Save ==
    /\ pc = "save"
    /\ IF fn_arg.save \/ fn_arg.preview
       THEN \/ /\ fn_ret' = [fn_ret EXCEPT !.steps = Append(@, "save")]
               /\ pc' = "import"
            \/ /\ fn_ret' = [fn_ret EXCEPT !.steps = Append(@, "save"), !.exit_status = 1]
               /\ pc' = "exited"
       ELSE pc' = "import" /\ fn_ret' = fn_ret
    /\ UNCHANGED <<crawl_vars, fn_arg>>

\* main: "if args.do_import": sys.exit(1) on issues, else the POST of
\* import_to_psm_phuket, whose failure is sys.exit(1); then the end of main
Import ==
    /\ pc = "import"
    /\ IF fn_arg.do_import
       THEN IF import_refused(fn_ret.issues)
            THEN Exit(1)
            ELSE /\ pc' = "exited"
                 /\ \E status \in {0, 1} :
                      fn_ret' = [fn_ret EXCEPT !.steps = Append(@, "post"),
                                               !.exit_status = status]
       ELSE Exit(0)
    /\ UNCHANGED <<crawl_vars, fn_arg>>

NextImport ==
    ChooseSource \/ LoadFile \/ ScrapeAttempt \/ ExtractWithAI \/ Validate \/ Display
    \/ Save \/ Import

\* one run of the import tool, with any command line
SpecImport == InitImport /\ [][NextImport]_vars

(***************************************************************************)
(* The properties of the crawl.                                            *)
(***************************************************************************)
\* the elements of a list
Range(seq) == {seq[i] : i \in DOMAIN seq}

\* no element of the list occurs twice
NoDuplicates(seq) == \A i, j \in DOMAIN seq : seq[i] = seq[j] => i = j

\* the run is in crawl's loop or past it
Crawling == pc \in {"loop", "fetch", "sleep", "done"}

\* C1: in every state of a crawl, after seeding and after any number of
\* iterations, in sitemap mode and in manual mode, no URL is both in visited
\* and in to_visit
C1_FrontierDisjoint == visited \cap to_visit = {}

\* a manual crawl has extracted the links of two pages and has URLs pending
C1_Witness ==
    /\ pc = "sleep"
    /\ sitemap_urls = <<>>
    /\ extractions = 2
    /\ Cardinality(visited) = 2
    /\ to_visit # {}

\* C2: a URL enters visited only in the step that pops it from to_visit, when
\* it was not visited yet and before its fetch; visited never loses a URL; no
\* URL is fetched twice, every fetched URL was marked visited first, and the
\* "already visited" branch never runs
C2_VisitedOnceBeforeFetch ==
    /\ [](/\ skips = 0
          /\ NoDuplicates(fetched)
          /\ Range(fetched) \subseteq visited
          /\ (pc = "fetch" => crawl_url \in visited /\ crawl_url \notin Range(fetched)))
    /\ [][/\ visited \subseteq visited'
          /\ (visited' # visited =>
                \E u \in to_visit \ visited :
                    /\ visited' = visited \cup {u}
                    /\ to_visit' = to_visit \ {u}
                    /\ u \notin Range(fetched)
                    /\ fetched' = fetched
                    /\ pc' = "fetch")]_vars

\* a manual crawl has fetched the base URL and then a URL its page links to
C2_Witness ==
    /\ pc = "sleep"
    /\ sitemap_urls = <<>>
    /\ Len(fetched) = 2
    /\ fetched[1] = base_url
    /\ visited = Range(fetched)
    /\ Len(pages) = 2

\* the URLs that came into the frontier in this run
Frontier == visited \cup to_visit

\* C3 as stated: with a budget of max_pages and at least that many URLs in
\* the frontier, a finished run holds exactly max_pages PageRecords
C3_ExactlyBudgetPages ==
    (pc = "done" /\ Cardinality(Frontier) >= max_pages) => Len(pages) = max_pages

\* C3: no run holds more than max_pages PageRecords; with at least max_pages
\* URLs in the frontier, a finished run has spent the whole budget on
\* PageRecords and CrawlErrors together, so it holds exactly max_pages
\* PageRecords when no fetch failed and fewer when one did
C3_BudgetBoundsPages ==
    /\ Len(pages) <= max_pages
    /\ (pc = "done" /\ Cardinality(Frontier) >= max_pages) =>
          Len(pages) + Len(errors) = max_pages

\* a manual crawl with a budget of two ended with two PageRecords and URLs
\* still queued
C3_Witness ==
    /\ pc = "done"
    /\ sitemap_urls = <<>>
    /\ max_pages = 2
    /\ Len(pages) = 2
    /\ to_visit # {}

\* the answer to a fetch is a failure
Failed(r) == r.exc \/ r.status_code # 200

\* C4: a failed fetch of the dequeued URL appends exactly one CrawlError for
\* it, with status 0 for a transport error and the observed status otherwise,
\* creates no PageRecord, enqueues nothing, and the loop goes on to its next
\* iteration; a fetch that succeeds appends no CrawlError
C4_FailedFetchRecorded ==
    /\ [][pc = "fetch" =>
            IF Failed(response')
            THEN /\ errors' = Append(errors,
                        [url |-> crawl_url,
                         status_code |-> IF response'.exc THEN 0 ELSE response'.status_code])
                 /\ pages' = pages
                 /\ to_visit' = to_visit
                 /\ pc' = "sleep"
            ELSE errors' = errors]_vars
    /\ [][pc = "sleep" => pc' = "loop" /\ to_visit' = to_visit /\ errors' = errors]_vars
    /\ [](pc = "loop" /\ to_visit # {} /\ page_count < max_pages => ENABLED Dequeue)
    /\ [](\A i \in DOMAIN errors : \A j \in DOMAIN pages : errors[i].url # pages[j].url)

\* after a 404 for the first URL the crawl has dequeued the next one
C4_Witness ==
    /\ pc = "fetch"
    /\ Len(errors) = 1
    /\ errors[1].status_code = 404
    /\ pages = <<>>
    /\ crawl_url # errors[1].url

\* the normalized URLs of a sitemap
NormalizedSet(urls) == {NormalizeUrl[urls[i]] : i \in DOMAIN urls}

\* C5: when the resolver returns a non-empty list the frontier is seeded with
\* the normalized sitemap URLs and nothing else, no links are extracted,
\* to_visit never grows after seeding and every visited URL is a normalized
\* sitemap URL; when it returns an empty list the frontier is seeded with
\* exactly the base URL and the links of every page fetched are extracted
C5_SitemapModeFrame ==
    /\ [][pc = "seed" =>
            to_visit' = IF sitemap_urls # <<>> THEN NormalizedSet(sitemap_urls)
                        ELSE {base_url}]_vars
    /\ [](Crawling /\ sitemap_urls # <<>> =>
            /\ Frontier = NormalizedSet(sitemap_urls)
            /\ extractions = 0)
    /\ [][Crawling /\ sitemap_urls # <<>> => to_visit' \subseteq to_visit]_vars
    /\ [](Crawling /\ sitemap_urls = <<>> =>
            /\ base_url \in Frontier
            /\ extractions = Len(pages))

\* a crawl seeded from a sitemap has fetched a page and recorded it
C5_Witness ==
    /\ pc = "sleep"
    /\ sitemap_urls # <<>>
    /\ Len(pages) = 1
    /\ base_url \notin Frontier

\* C6: every crawl terminates; when it has, to_visit is empty or the page
\* counter equals max_pages, and the URLs still pending were never fetched
\* and are in no PageRecord and no CrawlError; never are more than max_pages
\* URLs fetched, so with max_pages = 0 none is
C6_TerminatesWithinBudget ==
    /\ <>(pc = "done")
    /\ [](pc = "done" =>
            /\ to_visit = {} \/ page_count = max_pages
            /\ to_visit \cap Range(fetched) = {}
            /\ \A i \in DOMAIN pages : pages[i].url \notin to_visit
            /\ \A i \in DOMAIN errors : errors[i].url \notin to_visit)
    /\ [](page_count <= max_pages /\ Len(fetched) <= max_pages)
    /\ [](max_pages = 0 => fetched = <<>>)

\* a crawl seeded from a sitemap of two URLs ended on its budget of one page
\* with the other URL pending
C6_Witness ==
    /\ pc = "done"
    /\ sitemap_urls # <<>>
    /\ max_pages = 1
    /\ page_count = 1
    /\ to_visit # {}

\* the five conventional sitemap locations, in the order of the claim
ConventionalLocations ==
    <<"/sitemap.xml", "/sitemap_index.xml", "/wp-sitemap.xml", "/sitemap/",
      "/sitemap.xml.gz">>

\* C7: the resolver probes the five locations in the fixed order; a location
\* that fails or yields nothing is a miss and the next one is probed; it
\* returns at the first location that yields URLs, probing no later one, and
\* what it returns is what that one location yielded; it returns the empty
\* list only after all five were probed
C7_ProbesInOrder ==
    /\ Len(probed) <= 5
    /\ Len(found) = Len(probed)
    /\ \A i \in DOMAIN probed : probed[i] = base_url \o ConventionalLocations[i]
    /\ \A i \in 1..(Len(probed) - 1) : found[i] = <<>>
    /\ pc = "sitemap" =>
          /\ loc_idx = Len(probed) + 1
          /\ \A i \in DOMAIN found : found[i] = <<>>
    /\ pc # "sitemap" =>
          IF sitemap_urls = <<>>
          THEN Len(probed) = 5 /\ found[5] = <<>>
          ELSE sitemap_urls = found[Len(probed)]
    /\ (pc = "seed" /\ response # None /\ Failed(response)) =>
          Len(probed) = 5 /\ sitemap_urls = <<>>

\* two locations missed and the third, /wp-sitemap.xml, yielded the result
C7_Witness ==
    /\ pc = "seed"
    /\ Len(probed) = 3
    /\ sitemap_urls # <<>>

\* the <sitemap> entries of a document that reference a child
Referenced(r) == SelectSeq(r.sitemaps, LAMBDA c : c.loc # "")

\* the URL entries of the children that answered, as far as is_valid_url
\* accepts them
ValidChildEntries(r) ==
    {u \in UNION {Range(c.urls) : c \in {k \in Range(r.sitemaps) :
                                            k.loc # "" /\ ~k.exc /\ k.status_code = 200}} :
        IsValidUrl[domain, u]}

\* the document's own <url> entries, as far as is_valid_url accepts them
ValidOwnEntries(r) == {u \in Range(r.urls) : IsValidUrl[domain, u]}

\* the resolver has ended on a document that answered and references children
IndexProbed ==
    /\ pc = "seed"
    /\ response # None
    /\ ~Failed(response)
    /\ Referenced(response) # <<>>

\* C8 as stated: on a sitemap index every referenced child is fetched, the
\* resolver returns the union of the children's validated entries, and the
\* crawl runs in sitemap mode
C8_IndexReturnsChildren ==
    IndexProbed =>
        /\ Len(child_fetches) = Len(Referenced(response))
        /\ Range(sitemap_urls) = ValidChildEntries(response)
        /\ sitemap_urls # <<>>

\* C8: on a sitemap index every referenced child is fetched, a failing one
\* not stopping the others; the URLs collected are the children's entries and
\* the document's own, every one accepted by is_valid_url; they are returned
\* when there is one, and a crawl with a returned list extracts no links
C8_IndexChildrenAndOwnEntries ==
    /\ IndexProbed =>
          /\ child_fetches = [i \in DOMAIN Referenced(response) |->
                                 Referenced(response)[i].loc]
          /\ Range(all_urls) = ValidChildEntries(response) \cup ValidOwnEntries(response)
          /\ \A u \in Range(all_urls) : IsValidUrl[domain, u]
          /\ sitemap_urls = all_urls
    /\ (Crawling /\ sitemap_urls # <<>>) => extractions = 0

\* an index of two children, the first failing and the second listing a URL
\* in scope, gave the result
C8_Witness ==
    /\ IndexProbed
    /\ Len(response.sitemaps) = 2
    /\ response.sitemaps[1].loc # ""
    /\ response.sitemaps[1].exc
    /\ response.urls = <<>>
    /\ Len(child_fetches) = 2
    /\ sitemap_urls # <<>>

\* the path of a URL scheme://host/path that has no query and no fragment
PathOfUrl(u) ==
    IF Find(u, "/", Find(u, ":", 1) + 3) = 0 THEN ""
    ELSE Slice(u, Find(u, "/", Find(u, ":", 1) + 3), Len(u))

\* the host of such a URL
HostOfUrl(u) ==
    IF Find(u, "/", Find(u, ":", 1) + 3) = 0 THEN Slice(u, Find(u, ":", 1) + 3, Len(u))
    ELSE Slice(u, Find(u, ":", 1) + 3, Find(u, "/", Find(u, ":", 1) + 3) - 1)

\* the file extensions and the administrative prefixes that are out of scope
SkippedExtensions ==
    {".jpg", ".jpeg", ".png", ".gif", ".pdf", ".zip", ".css", ".js", ".ico", ".svg",
     ".webp", ".woff", ".woff2", ".ttf", ".eot"}

AdminPrefixes ==
    {"/wp-admin", "/wp-login", "/wp-includes", "/wp-content/uploads", "/feed",
     "/xmlrpc.php", "/wp-json"}

\* a URL, as it stands, is in scope for the site
InScope(u) ==
    /\ HostOfUrl(u) = domain
    /\ ~ \E e \in SkippedExtensions : EndsWith(Lower(PathOfUrl(u)), e)
    /\ ~ \E a \in AdminPrefixes : StartsWith(Lower(PathOfUrl(u)), a)

\* C14 as stated: every URL the crawl loop fetches, other than the seeded base
\* URL, is in scope in the form in which it is fetched: its host is the
\* site's, its path ends in no skipped extension and starts with no
\* administrative prefix, and is_valid_url accepts it; in sitemap mode and in
\* manual mode
C14_FetchedInScope ==
    \A i \in DOMAIN fetched :
        fetched[i] # base_url => InScope(fetched[i]) /\ IsValidUrl[domain, fetched[i]]

\* a crawl seeded from a sitemap has fetched a URL the sitemap lists
C14_Witness ==
    /\ pc = "sleep"
    /\ sitemap_urls = <<"http://s/p/">>
    /\ fetched = <<"http://s/p">>
    /\ InScope(fetched[1])

\* the parameters that only make near-duplicates of a page
NoiseParams == {"replytocom", "share=", "like_comment", "print="}

\* the query string of an href: what follows the first "?"
QueryOfHref(h) == IF Find(h, "?", 1) = 0 THEN "" ELSE Slice(h, Find(h, "?", 1) + 1, Len(h))

\* the hrefs whose query string holds a noise parameter
NoisyHrefs == {h \in Hrefs : \E n \in NoiseParams : Contains(QueryOfHref(h), n)}

\* the URLs that anchors with the given hrefs lead to, from any page
TargetsOf(hrefs) == {NormalizeUrl[UrlJoin[c, h]] : c \in KnownUrls, h \in hrefs}

\* the URLs that only an anchor with a noise parameter leads to
NoisyOnlyTargets == TargetsOf(NoisyHrefs) \ (TargetsOf(Hrefs \ NoisyHrefs) \cup {base_url})

\* C15 as stated: in a manual crawl an anchor whose query string holds a noise
\* parameter (replytocom, share=, like_comment, print=) is rejected when the
\* links are extracted and brings no URL into the frontier: no URL that only
\* such anchors lead to is ever pending or visited
C15_NoisyLinkRejected ==
    (Crawling /\ sitemap_urls = <<>>) => Frontier \cap NoisyOnlyTargets = {}

\* a manual crawl has extracted the links of the base page and queued one
C15_Witness ==
    /\ pc = "sleep"
    /\ sitemap_urls = <<>>
    /\ extractions = 1
    /\ NoisyHrefs = {"/q?share=1"}
    /\ "http://s/p" \in to_visit

\* a URL of the site root, written with or without the trailing slash
IsRoot(u) == HostOfUrl(u) = domain /\ PathOfUrl(u) \in {"", "/"}

\* the positions of a list of URLs that hold the site root
RootsIn(urls) == {i \in DOMAIN urls : IsRoot(urls[i])}

\* C16 as stated: in a manual crawl the site root is processed at most once:
\* the seeded base URL and a discovered link to the root, with or without the
\* trailing slash, are one frontier key, so the root is never fetched twice,
\* never yields two PageRecords and is never pending once visited
C16_RootOnce ==
    (Crawling /\ sitemap_urls = <<>>) =>
        /\ Cardinality(RootsIn(fetched)) <= 1
        /\ Cardinality(RootsIn([i \in DOMAIN pages |-> pages[i].url])) <= 1
        /\ Cardinality({u \in Frontier : IsRoot(u)}) <= 1

\* a manual crawl has ended after the root and one page below it
C16_Witness ==
    /\ pc = "done"
    /\ sitemap_urls = <<>>
    /\ Len(pages) = 2
    /\ fetched = <<base_url, "http://s/p">>
    /\ RootsIn(fetched) = {1}

\* C17: the delay is applied after every fetch attempt of the crawl loop,
\* failed or not: every fetch is followed by the delay before anything else
\* happens, so when a fetch starts there has been exactly one delay for each
\* fetch before it, and a fetch starts only when the one before it and its
\* delay are over
C17_DelayAfterEveryFetch ==
    /\ [](Crawling => delays = IF pc = "sleep" THEN Len(fetched) - 1 ELSE Len(fetched))
    /\ [][fetched' # fetched =>
            /\ pc = "fetch" /\ pc' = "sleep"
            /\ Len(fetched') = Len(fetched) + 1
            /\ delays' = delays]_vars
    /\ [][pc = "sleep" => delays' = delays + 1 /\ fetched' = fetched /\ pc' = "loop"]_vars
    /\ [](pc = "sleep" => ENABLED Sleep)

\* the first fetch failed, the delay followed, and the second fetch is about
\* to start
C17_Witness ==
    /\ pc = "fetch"
    /\ Len(fetched) = 1
    /\ Len(errors) = 1
    /\ delays = 1

\* list a is the beginning of list b
IsPrefix(a, b) == Len(a) <= Len(b) /\ SubSeq(b, 1, Len(a)) = a

\* the URLs of the PageRecords, in the order of the list
PageUrls == [i \in DOMAIN pages |-> pages[i].url]

\* C18: the result lists only grow: every step leaves the PageRecords and the
\* CrawlErrors it finds where they are and as they are, and adds at most one
\* at the end; a PageRecord has its suggested redirect from the step that
\* appends it; the PageRecords stand in the order in which their URLs were
\* dequeued
C18_ResultsOnlyGrow ==
    /\ [][/\ IsPrefix(pages, pages') /\ Len(pages') <= Len(pages) + 1
          /\ IsPrefix(errors, errors') /\ Len(errors') <= Len(errors) + 1
          /\ (pages' # pages =>
                /\ pages'[Len(pages')].url = crawl_url
                /\ pages'[Len(pages')].suggested_redirect # "")]_vars
    /\ [](PageUrls = SelectSeq(fetched, LAMBDA u : u \in Range(PageUrls)))

\* two pages were recorded, in the order of their fetches, the first one
\* unchanged by the second iteration
C18_Witness ==
    /\ pc = "sleep"
    /\ Len(fetched) = 2
    /\ PageUrls = fetched
    /\ pages[1].suggested_redirect = "/"
    /\ pages[2].suggested_redirect = "/properties"

\* the URLs of the CrawlErrors, in the order of the list
ErrorUrls == [i \in DOMAIN errors |-> errors[i].url]

\* C19: at every boundary of the loop the PageRecords and the CrawlErrors
\* together are as many as the visited URLs, as the page counter says and as
\* fetches were made, and no more than max_pages; every fetched URL has
\* exactly one PageRecord, with status 200, or exactly one CrawlError, with a
\* status other than 200, and never both, so no two PageRecords share a URL
C19_OneRecordPerDequeue ==
    /\ pc \in {"loop", "sleep", "done"} =>
          /\ Len(pages) + Len(errors) = Cardinality(visited)
          /\ Cardinality(visited) = page_count
          /\ page_count <= max_pages
          /\ Len(fetched) = page_count
          /\ Range(PageUrls) \cup Range(ErrorUrls) = Range(fetched)
    /\ pc = "fetch" => Len(pages) + Len(errors) = page_count - 1 /\ page_count <= max_pages
    /\ NoDuplicates(PageUrls \o ErrorUrls)
    /\ \A i \in DOMAIN pages : pages[i].status_code = 200
    /\ \A i \in DOMAIN errors : errors[i].status_code # 200

\* the whole budget of two was spent on one PageRecord and one CrawlError of
\* a transport failure, with URLs still pending
C19_Witness ==
    /\ pc = "loop"
    /\ max_pages = 2 /\ page_count = 2
    /\ Len(pages) = 1
    /\ Len(errors) = 1 /\ errors[1].status_code = 0
    /\ to_visit # {}

(***************************************************************************)
(* The properties of the pure functions.                                   *)
(***************************************************************************)
\* C9 as stated: normalize_url is idempotent, normalizing the result of
\* normalize_url gives that result again, for every input string
C9_NormalizeIdempotent == pc = "again" => fn_ret[2] = fn_ret[1]

\* normalize_url has been applied to its own result
C9_Witness == pc = "again" /\ fn_arg = "http://s/a/" /\ fn_ret = <<"http://s/a", "http://s/a">>

\* a non-empty string that starts with "/"
IsRootedPath(s) == s # "" /\ Char(s, 1) = "/"

\* C10: suggest_redirect returns a non-empty string that starts with "/" for
\* every page type and every URL path, and so does the suggested_redirect of
\* every PageRecord that extract_page_info builds
C10_RedirectTotal == pc = "returned" => IsRootedPath(fn_ret[1])

\* the fallback of suggest_redirect has answered for a page of unknown type
\* whose URL has an empty path
C10_Witness ==
    /\ pc = "returned"
    /\ "page_type" \in DOMAIN fn_arg
    /\ fn_arg.page_type = "unknown"
    /\ fn_arg.url = "http://s"
    /\ fn_ret = <<"/properties">>

\* the fifteen page types in the order of their rules
RuleOrder ==
    <<"property", "blog", "archive", "agent", "homepage", "about", "contact", "privacy",
      "terms", "service", "rental", "location", "faq", "page", "unknown">>

\* the rule of one page type: a keyword in the lower-case path, or a marker in
\* the body classes
RuleMatches(t, path, classes) ==
    CASE t = "property" -> \/ \E k \in {"property", "listing", "villa", "house", "condo",
                                        "apartment"} : Contains(path, "/" \o k \o "/")
                           \/ Contains(classes, "single-property")
                           \/ Contains(classes, "single-listing")
      [] t = "blog" -> \/ \E k \in {"blog", "news", "article"} : Contains(path, "/" \o k \o "/")
                       \/ Contains(classes, "single-post")
      [] t = "archive" -> \/ \E k \in {"category", "tag"} : Contains(path, "/" \o k \o "/")
                          \/ Contains(classes, "archive")
                          \/ Contains(classes, "category")
      [] t = "agent" -> \E k \in {"agent", "agents"} : Contains(path, "/" \o k \o "/")
      [] t = "homepage" -> path = "/" \/ path = ""
      [] t = "about" -> \E k \in {"about", "over-ons", "team"} : Contains(path, "/" \o k)
      [] t = "contact" -> \E k \in {"contact", "contactus"} : Contains(path, "/" \o k)
      [] t = "privacy" -> \E k \in {"privacy", "gdpr"} : Contains(path, "/" \o k)
      [] t = "terms" -> \E k \in {"terms", "voorwaarden", "conditions"} :
                            Contains(path, "/" \o k)
      [] t = "service" -> \E k \in {"service", "dienst"} : Contains(path, "/" \o k)
      [] t = "rental" -> \E k \in {"rental", "verhuur", "rent"} : Contains(path, "/" \o k)
      [] t = "location" -> \E k \in {"location", "area", "region"} : Contains(path, "/" \o k)
      [] t = "faq" -> \E k \in {"faq", "veelgestelde-vragen"} : Contains(path, "/" \o k)
      [] t = "page" -> Contains(classes, "page")
      [] t = "unknown" -> TRUE

\* the path of the URL classified, in lower case
ClassifiedPath == Lower(Slice(fn_arg.url, Len("http://s") + 1, Len(fn_arg.url)))

\* the position in RuleOrder of the type returned
ReturnedRule == CHOOSE i \in DOMAIN RuleOrder : RuleOrder[i] = fn_ret[1]

\* C11: detect_page_type returns one of the fifteen page types for every path
\* and every body class, and the type returned is the first in the order
\* property, blog, archive, agent, homepage, about, contact, privacy, terms,
\* service, rental, location, faq, page, unknown whose rule matches: a path
\* with a listing keyword is "property" whatever else matches, and "page" is
\* returned only when no rule before it matches
C11_FirstMatchingRule ==
    pc = "returned" =>
        /\ fn_ret[1] \in Range(RuleOrder)
        /\ Len(RuleOrder) = 15 /\ NoDuplicates(RuleOrder)
        /\ RuleMatches(fn_ret[1], ClassifiedPath, fn_arg.body_class)
        /\ \A i \in 1..(ReturnedRule - 1) :
              ~RuleMatches(RuleOrder[i], ClassifiedPath, fn_arg.body_class)
        /\ (Contains(ClassifiedPath, "/villa/") /\ Contains(ClassifiedPath, "/blog/")
              => fn_ret[1] = "property")

\* a path with a blog keyword and a listing keyword, in upper case, on a page
\* with the blog marker has been classified as a listing
C11_Witness ==
    /\ pc = "returned"
    /\ fn_arg = [body_class |-> "single-post", url |-> "http://s/blog//Villa/"]
    /\ fn_ret = <<"property">>

\* the prefix of the new site for each page type that keeps its slug
SlugPrefix == [property |-> "/listings/", blog |-> "/blogs/", location |-> "/locations/",
               service |-> "/services/"]

\* the final segment of a path, a trailing slash not counting
FinalSegment(path) == LastSegment(RStrip(path, "/"))

\* C12 as stated: for a page of type property, blog, location or service
\* suggest_redirect returns /listings/, /blogs/, /locations/ or /services/
\* followed by the final path segment of the page URL, and the same for the
\* URL with a trailing slash; https://example.com/property/sea-view-villa/ is
\* a property and maps to /listings/sea-view-villa,
\* https://example.com/blog/top-5-beaches is a blog and maps to
\* /blogs/top-5-beaches
C12_SlugUnderPrefix ==
    /\ (pc = "again" /\ fn_ret[1].page_type \in SlugTypes) =>
          /\ fn_ret[1].suggested_redirect =
                SlugPrefix[fn_ret[1].page_type] \o FinalSegment(PathOfUrl(fn_arg.url))
          /\ fn_ret[2] = fn_ret[1].suggested_redirect
    /\ (pc = "returned" /\ "body_class" \in DOMAIN fn_arg) =>
          /\ fn_arg.url = "https://example.com/property/sea-view-villa/" =>
                fn_ret[1] = [page_type |-> "property",
                             suggested_redirect |-> "/listings/sea-view-villa"]
          /\ fn_arg.url = "https://example.com/blog/top-5-beaches" =>
                fn_ret[1] = [page_type |-> "blog",
                             suggested_redirect |-> "/blogs/top-5-beaches"]

\* the page of the first scenario has been classified and mapped, with and
\* without the trailing slash
C12_Witness ==
    /\ pc = "again"
    /\ fn_arg = [body_class |-> "", url |-> "https://example.com/property/sea-view-villa/"]
    /\ fn_ret = <<[page_type |-> "property", suggested_redirect |-> "/listings/sea-view-villa"],
                  "/listings/sea-view-villa">>

\* the positions at which key stands in text
KeyPositions(text, key) == {i \in 1..Len(text) : Slice(text, i, i + Len(key) - 1) = key}

\* a set of numbers as an ascending list
RECURSIVE Ascending(_)
Ascending(S) == IF S = {} THEN <<>> ELSE <<MinOr(S, 0)>> \o Ascending(S \ {MinOr(S, 0)})

\* the values that follow the keys at the given positions, each up to the
\* closing quote
ValuesAt(text, key, quote, positions) ==
    [i \in DOMAIN positions |->
        Slice(text, positions[i] + Len(key), Find(text, quote, positions[i] + Len(key)) - 1)]

\* the values of a field read back from a text, in the order of the text
FieldValues(text, key, quote) == ValuesAt(text, key, quote, Ascending(KeyPositions(text, key)))

\* the entries of as many sources, destinations and "permanent: true"
EntriesFrom(sources, destinations, permanents) ==
    IF Len(sources) = Len(destinations) /\ Len(sources) = permanents
    THEN [i \in DOMAIN sources |->
            [source |-> sources[i], destination |-> destinations[i], permanent |-> TRUE]]
    ELSE <<"malformed">>

\* the entries read back from the TypeScript text
NextjsEntries(text) ==
    EntriesFrom(FieldValues(text, "source: '", "'"), FieldValues(text, "destination: '", "'"),
                Cardinality(KeyPositions(text, "permanent: true")))

\* the entries read back from the JSON text
VercelEntries(text) ==
    EntriesFrom(FieldValues(text, "\"source\": \"", "\""),
                FieldValues(text, "\"destination\": \"", "\""),
                Cardinality(KeyPositions(text, "\"permanent\": true")))

\* the entry the claim gives a page
EntryOfPage(page) ==
    [source |-> PathOfUrl(page.url), destination |-> page.suggested_redirect,
     permanent |-> TRUE]

\* the entries of the given pages, in their order
EntriesOfPages(kept) == [i \in DOMAIN kept |-> EntryOfPage(kept[i])]

\* both files hold exactly the given entries, in that order
BothFilesHold(entries) ==
    /\ fn_ret[1].redirects = entries
    /\ fn_ret[2].redirects = entries
    /\ NextjsEntries(fn_ret[1].config) = entries
    /\ VercelEntries(fn_ret[2].config) = entries

\* C13 as stated: in the nextjs and in the vercel format there is one entry
\* {source path, destination, permanent = true} for every page whose type is
\* not homepage and none for a homepage, the same entries in the same order
C13_EntryPerNonHomepage ==
    pc = "again" =>
        BothFilesHold(EntriesOfPages(SelectSeq(fn_arg, LAMBDA p : p.page_type # "homepage")))

\* C13: in the nextjs and in the vercel format there is one entry {source
\* path, destination, permanent = true} for every page whose type is not
\* homepage and whose URL has a non-empty path and whose suggested redirect is
\* not empty, in the order of the pages, and no entry for any other page; the
\* two formats hold the same entries in the same order
C13_EntryPerNonHomepageWithPath ==
    pc = "again" =>
        /\ BothFilesHold(EntriesOfPages(SelectSeq(fn_arg,
              LAMBDA p : /\ p.page_type # "homepage"
                         /\ PathOfUrl(p.url) # ""
                         /\ p.suggested_redirect # "")))
        /\ NextjsEntries(fn_ret[1].config) = VercelEntries(fn_ret[2].config)

\* both files were written for a blog page followed by the homepage: one entry
C13_Witness ==
    /\ pc = "again"
    /\ Len(fn_arg) = 2
    /\ fn_arg[1].url = "http://s/blog/a" /\ fn_arg[1].page_type = "blog"
    /\ fn_arg[2].url = "http://s/" /\ fn_arg[2].page_type = "homepage"
    /\ VercelEntries(fn_ret[2].config)
         = <<[source |-> "/blog/a", destination |-> "/blogs/a", permanent |-> TRUE]>>

\* the steps of the pipeline and their places in it
StepRank == [scrape |-> 1, extract |-> 2, validate |-> 3, post |-> 4]

\* the steps of the pipeline that the run has taken, in the order taken
PipelineSteps == SelectSeq(fn_ret.steps, LAMBDA st : st \in DOMAIN StepRank)

\* C20: the steps scrape, AI extraction, validate and POST are taken in that
\* order and none twice; the POST is issued at most once, only with --import
\* and after a validation that found no issues; a scrape or an extraction
\* that fails ends the run with status 1 and without a POST; with --import
\* and issues the run ends with status 1 and without a POST; a run that has
\* ended takes no step
C20_PipelineOrder ==
    /\ [](/\ \A i, j \in DOMAIN PipelineSteps :
                i < j => StepRank[PipelineSteps[i]] < StepRank[PipelineSteps[j]]
          /\ "post" \in Range(fn_ret.steps) =>
                /\ fn_arg.do_import
                /\ "validate" \in Range(fn_ret.steps)
                /\ fn_ret.issues = <<>>
                /\ validate_property_data(fn_ret.property_data) = <<>>
          /\ (pc = "exited" /\ fn_arg.do_import /\ fn_ret.issues # <<>>) =>
                fn_ret.exit_status = 1 /\ "post" \notin Range(fn_ret.steps)
          /\ pc = "exited" => ~ENABLED NextImport)
    /\ [][(pc \in {"scrape", "extract"} /\ pc' = "exited") =>
            fn_ret'.exit_status = 1 /\ "post" \notin Range(fn_ret'.steps)]_vars

\* a run with --import scraped at the third attempt, extracted a property
\* without issues and posted it
C20_Witness ==
    /\ pc = "exited"
    /\ fn_arg.do_import /\ ~fn_arg.from_file
    /\ fn_ret.attempt = 2
    /\ PipelineSteps = <<"scrape", "extract", "validate", "post">>
    /\ fn_ret.exit_status = 0

====
